---- MODULE Spec2Model ----
(***************************************************************************)
(* Model of retail-forecast-api: the feature builder (feature_builder.py)  *)
(* and the /predict handler that drives it (app.py).                       *)
(*                                                                         *)
(* Dates are day numbers counted from 2024-01-01 (day 0, a Monday).        *)
(* A data frame is a sequence of rows; a numeric column cell is a natural  *)
(* number or NaN.  A Python float is a record [k, n, d]: k = "num" is the  *)
(* reduced fraction n/d, k = "sqrt" the square root of n/d, k = "inf"      *)
(* +Infinity and k = "nan" NaN.                                            *)
(***************************************************************************)
EXTENDS Integers, Sequences, FiniteSets, TLC

\* A missing cell of a numeric column (numbers are never negative).
NaN == -1

\* ---------------------------------------------------------------- bounds

\* Latest date of a dataset record (day number).
MaxDate == 2
\* Latest target date a caller asks for.
MaxTarget == 31
\* Largest n_days of a /predict request.
MaxNDays == 2
\* Latest start date of a /predict request.
MaxStart == 3

\* The dataset holds up to two records.  Records of category "A" take every
\* date, quantity and unit price below (a unit price may be missing: NaN);
\* category "B" stands for the other categories of the file, with one quantity
\* and one price of its own.
DatasetLens == {0, 1, 2}
RecordDates == 0..MaxDate
Quantities == {1, 2}
Prices == {NaN, 0, 2}
OtherQuantities == {3}
OtherPrices == {1}
Products == {"A", "B", "C"}

\* ------------------------------------------------------------- constants

HISTORY_DAYS == 60
NoCategory == "NaN"
AlphaNum == 3
AlphaDen == 10
EpsDen == 1000000
\* Fixed-point scale of the exponentially weighted mean (three decimals).
EwmScale == 1000

NoHistoryError == "No history for product"
DateTooEarlyError == "target_date is earlier than available history"
ReindexError == "cannot reindex on an axis with duplicate labels"

\* ---------------------------------------------------------------- floats

RECURSIVE GCD(_, _)
GCD(a, b) == IF b = 0 THEN a ELSE GCD(b, a % b)

Abs(x) == IF x < 0 THEN 0 - x ELSE x

Num(n, d) ==
    LET g == GCD(Abs(n), d)
    IN  [k |-> "num", n |-> n \div g, d |-> d \div g]

NanVal == [k |-> "nan", n |-> 0, d |-> 1]
InfVal == [k |-> "inf", n |-> 1, d |-> 0]
Zero == Num(0, 1)

\* float(x) of a column cell
Float(x) == IF x = NaN THEN NanVal ELSE Num(x, 1)

\* pd.isna / np.isnan of a float
IsNan(v) == v.k = "nan"

\* a / b of two non-negative column cells, as numpy divides floats
FDiv(a, b) ==
    IF a = NaN \/ b = NaN THEN NanVal
    ELSE IF b = 0 THEN (IF a = 0 THEN NanVal ELSE InfVal)
    ELSE Num(a, b)

\* v - 1
FSubOne(v) == IF v.k = "num" THEN Num(v.n - v.d, v.d) ELSE v

\* q / (m + 1e-6) for a Python float q >= 0 and a float m >= 0
RatioToMean(q, m) ==
    IF m.k # "num" THEN NanVal
    ELSE Num(q * m.d * EpsDen, m.n * EpsDen + m.d)

\* ---------------------------------------------------------------- series

RECURSIVE SumSeq(_)
SumSeq(s) == IF s = <<>> THEN 0 ELSE Head(s) + SumSeq(Tail(s))

RECURSIVE SumSqSeq(_)
SumSqSeq(s) == IF s = <<>> THEN 0 ELSE Head(s) * Head(s) + SumSqSeq(Tail(s))

Col(df, c) == [i \in 1..Len(df) |-> df[i][c]]

\* Series.shift(1)
Shift(s) == IF s = <<>> THEN <<>> ELSE <<NaN>> \o SubSeq(s, 1, Len(s) - 1)

\* Series.shift(n), n >= 1
ShiftN(s, n) ==
    [i \in 1..Len(s) |-> IF i <= n THEN NaN ELSE s[i - n]]

\* the window of Series.rolling(n) at the last position
RollingLast(s, n) ==
    SubSeq(s, IF Len(s) > n THEN Len(s) - n + 1 ELSE 1, Len(s))

NotNa(x) == x # NaN

\* Series.rolling(n, min_periods).mean().iloc[-1]
RollMeanLast(s, n, min_periods) ==
    LET v == SelectSeq(RollingLast(s, n), NotNa)
    IN  IF Len(v) < min_periods THEN NanVal ELSE Num(SumSeq(v), Len(v))

\* Series.rolling(n, min_periods).std().iloc[-1]  (ddof = 1)
RollStdLast(s, n, min_periods) ==
    LET v == SelectSeq(RollingLast(s, n), NotNa)
        c == Len(v)
        var == Num(c * SumSqSeq(v) - SumSeq(v) * SumSeq(v), c * (c - 1))
    IN  IF c < min_periods \/ c < 2 THEN NanVal
        ELSE IF var.n = 0 THEN Zero
        ELSE [k |-> "sqrt", n |-> var.n, d |-> var.d]

\* Series.ewm(alpha).mean().iloc[-1] (adjust=True, ignore_na=False): pandas'
\* recursion from position i on, in fixed point.  avg (the weighted average) and
\* old_wt are scaled by EwmScale; avg = NaN until the first observation.
\* old_wt * (1 - alpha)
Decay(old_wt) == (old_wt * (AlphaDen - AlphaNum)) \div AlphaDen

RECURSIVE EwmFrom(_, _, _, _)
EwmFrom(s, i, avg, old_wt) ==
    IF i > Len(s) THEN avg
    ELSE IF avg # NaN
    THEN IF s[i] # NaN
         THEN EwmFrom(s, i + 1,
                  (Decay(old_wt) * avg + EwmScale * s[i] * EwmScale)
                     \div (Decay(old_wt) + EwmScale),
                  Decay(old_wt) + EwmScale)
         ELSE EwmFrom(s, i + 1, avg, Decay(old_wt))
    ELSE IF s[i] # NaN
         THEN EwmFrom(s, i + 1, s[i] * EwmScale, old_wt)
         ELSE EwmFrom(s, i + 1, avg, old_wt)

EwmMeanLast(s) ==
    LET a == EwmFrom(s, 2, IF s[1] = NaN THEN NaN ELSE s[1] * EwmScale, EwmScale)
    IN  IF a = NaN THEN NanVal ELSE Num(a, EwmScale)

\* Series.pct_change(n).iloc[-1]: data / data.shift(n) - 1
PctChangeLast(s, n) ==
    FSubOne(FDiv(s[Len(s)], ShiftN(s, n)[Len(s)]))

\* ------------------------------------------------------ ensure_daily_index

Min(S) == CHOOSE x \in S : \A y \in S : x <= y
Max(S) == CHOOSE x \in S : \A y \in S : x >= y

DateSet(df) == {df[i].Date : i \in 1..Len(df)}

HasDuplicateDates(df) ==
    \E i, j \in 1..Len(df) : i < j /\ df[i].Date = df[j].Date

\* df.sort_values("Date"): insertion of each row after the rows not later
RECURSIVE SortByDate(_)
SortByDate(df) ==
    IF df = <<>> THEN <<>>
    ELSE LET rest == SortByDate(SubSeq(df, 1, Len(df) - 1))
             r == df[Len(df)]
             k == Cardinality({i \in 1..Len(rest) : rest[i].Date <= r.Date})
         IN  SubSeq(rest, 1, k) \o <<r>> \o SubSeq(rest, k + 1, Len(rest))

\* pd.date_range(a, b, freq="D")
DateRange(a, b) == [i \in 1..(IF b >= a THEN b - a + 1 ELSE 0) |-> a + i - 1]

\* df.reindex(full): the row of each day, all-NaN where the day has none
Reindex(df, full) ==
    [i \in 1..Len(full) |->
        IF \E j \in 1..Len(df) : df[j].Date = full[i]
        THEN df[CHOOSE j \in 1..Len(df) : df[j].Date = full[i]]
        ELSE [Date |-> full[i], ProductCategory |-> NoCategory,
              Quantity |-> NaN, PricePerUnit |-> NaN]]

RECURSIVE FFillTo(_, _, _)
FFillTo(s, na, i) ==
    IF s[i] # na \/ i = 1 THEN s[i] ELSE FFillTo(s, na, i - 1)

\* Series.ffill()
FFill(s, na) == [i \in 1..Len(s) |-> FFillTo(s, na, i)]

RECURSIVE BFillTo(_, _, _)
BFillTo(s, na, i) ==
    IF s[i] # na \/ i = Len(s) THEN s[i] ELSE BFillTo(s, na, i + 1)

\* Series.bfill()
BFill(s, na) == [i \in 1..Len(s) |-> BFillTo(s, na, i)]

\* Series.fillna(v)
FillNa(s, v) == [i \in 1..Len(s) |-> IF s[i] = NaN THEN v ELSE s[i]]

\* ensure_daily_index(df), df not empty: [raised, df]
EnsureDailyIndex(df) ==
    LET sorted == SortByDate(df)
        full == DateRange(Min(DateSet(sorted)), Max(DateSet(sorted)))
        re == Reindex(sorted, full)
        cat == BFill(FFill(Col(re, "ProductCategory"), NoCategory), NoCategory)
        qty == FillNa(Col(re, "Quantity"), 0)
        price == FillNa(BFill(FFill(Col(re, "PricePerUnit"), NaN), NaN), 0)
    IN  IF HasDuplicateDates(sorted)
        THEN [raised |-> ReindexError, df |-> <<>>]
        ELSE [raised |-> "",
              df |-> [i \in 1..Len(full) |->
                        [Date |-> full[i], ProductCategory |-> cat[i],
                         Quantity |-> qty[i], PricePerUnit |-> price[i]]]]

\* ---------------------------------------------------------------- calendar

\* Year 2024: month lengths; day 0 is Monday 2024-01-01.
MonthLengths == <<31, 29, 31, 30, 31, 30, 31, 31, 30, 31, 30, 31>>

RECURSIVE MonthFrom(_, _)
MonthFrom(t, m) ==
    IF t < MonthLengths[m] THEN m ELSE MonthFrom(t - MonthLengths[m], m + 1)

RECURSIVE DaysBefore(_)
DaysBefore(m) == IF m = 1 THEN 0 ELSE DaysBefore(m - 1) + MonthLengths[m - 1]

Month(t) == MonthFrom(t, 1)
Day(t) == t - DaysBefore(Month(t)) + 1
DayOfWeek(t) == t % 7
IsWeekend(t) == IF DayOfWeek(t) \in {5, 6} THEN 1 ELSE 0
\* ISO week of a 2024 date (the year starts on a Monday)
WeekOfYear(t) == t \div 7 + 1

\* Timestamp.strftime("%Y-%m-%d"), as <<year, month, day>>
StrfTime(t) == <<2024, Month(t), Day(t)>>
\* pd.to_datetime of such a string
ToDatetime(str) == DaysBefore(str[2]) + str[3] - 1

\* ---------------------------------------------------------- build_features

\* Mutant of FilterProduct: the category filter is dropped.
FilterNothing(history_df, product) == history_df

\* history_df[history_df["Product Category"] == product].copy()
FilterProduct(history_df, product) ==
    LET Keep(r) == r.ProductCategory = product
    IN  SelectSeq(history_df, Keep)

\* Mutant of Extend: the appended range starts at last_date itself.
ExtendFromLast(prod_hist, product, target_date) ==
    LET last_date == Max(DateSet(prod_hist))
        extra_idx == DateRange(last_date, target_date)
        price == Col(prod_hist, "PricePerUnit")
        tail == [i \in 1..Len(extra_idx) |->
                    [Date |-> extra_idx[i], ProductCategory |-> product,
                     Quantity |-> 0, PricePerUnit |-> price[Len(price)]]]
    IN  IF target_date > last_date THEN prod_hist \o tail ELSE prod_hist

\* lines 42-54: the series extended to target_date
Extend(prod_hist, product, target_date) ==
    LET last_date == Max(DateSet(prod_hist))
        extra_idx == DateRange(last_date + 1, target_date)
        price == Col(prod_hist, "PricePerUnit")
        allna == \A i \in 1..Len(price) : price[i] = NaN
        tail == [i \in 1..Len(extra_idx) |->
                    [Date |-> extra_idx[i], ProductCategory |-> product,
                     Quantity |-> 0,
                     PricePerUnit |-> IF ~allna THEN price[Len(price)] ELSE 0]]
    IN  IF target_date > last_date /\ Len(extra_idx) > 0
        THEN prod_hist \o tail
        ELSE prod_hist

\* prod_hist.loc[prod_hist["Date"] <= target_date]
MaskUpTo(prod_hist, target_date) ==
    LET Keep(r) == r.Date <= target_date
    IN  SelectSeq(prod_hist, Keep)

\* DataFrame.tail(n)
TailRows(df, n) == SubSeq(df, IF Len(df) > n THEN Len(df) - n + 1 ELSE 1, Len(df))

SafeLag(series, n) ==
    IF Len(series) > n THEN Float(series[Len(series) - n + 1]) ELSE Zero

\* Mutant of SafeRollMean: the series is not shifted, so the latest entry
\* enters the mean.
SafeRollMeanNoShift(series, n) ==
    IF Len(series) >= 1 THEN RollMeanLast(series, n, 1) ELSE Zero

SafeRollMean(series, n) ==
    IF Len(series) >= 1 THEN RollMeanLast(Shift(series), n, 1) ELSE Zero

SafeRollStd(series, n) ==
    IF Len(series) >= 1
    THEN LET val == RollStdLast(Shift(series), n, 1)
         IN  IF IsNan(val) THEN Zero ELSE val
    ELSE Zero

SafeEwm(series) ==
    IF Len(series) >= 1
    THEN LET val == EwmMeanLast(Shift(series))
         IN  IF IsNan(val) THEN Zero ELSE val
    ELSE Zero

PricePctChange7d(price) ==
    IF Len(price) > 7 THEN PctChangeLast(price, 7) ELSE Zero

RatioToCat28d(qty) ==
    LET cat_mean_28d == IF Len(qty) >= 1 THEN RollMeanLast(Shift(qty), 28, 1) ELSE Zero
        last_qty == IF Len(qty) >= 1 THEN qty[Len(qty)] ELSE 0
    IN  RatioToMean(last_qty, cat_mean_28d)

FeatureNames ==
    {"Quantity_lag_1", "Quantity_lag_7", "Quantity_lag_28",
     "Quantity_roll_mean_7", "Quantity_roll_mean_14", "Quantity_roll_mean_28",
     "Quantity_roll_std_7", "Quantity_roll_std_14", "Quantity_roll_std_28",
     "Quantity_ewm_0.3", "price pct change 7d", "ratio_to_cat_28d",
     "day", "month", "dayofweek", "is_weekend", "week_of_year"}

\* lines 92-118: the feature dictionary before the NaN pass
RawFeatures(qty, price, target_date) ==
    ("Quantity_lag_1" :> SafeLag(qty, 1)) @@
    ("Quantity_lag_7" :> SafeLag(qty, 7)) @@
    ("Quantity_lag_28" :> SafeLag(qty, 28)) @@
    ("Quantity_roll_mean_7" :> SafeRollMean(qty, 7)) @@
    ("Quantity_roll_mean_14" :> SafeRollMean(qty, 14)) @@
    ("Quantity_roll_mean_28" :> SafeRollMean(qty, 28)) @@
    ("Quantity_roll_std_7" :> SafeRollStd(qty, 7)) @@
    ("Quantity_roll_std_14" :> SafeRollStd(qty, 14)) @@
    ("Quantity_roll_std_28" :> SafeRollStd(qty, 28)) @@
    ("Quantity_ewm_0.3" :> SafeEwm(qty)) @@
    ("price pct change 7d" :> PricePctChange7d(price)) @@
    ("ratio_to_cat_28d" :> RatioToCat28d(qty)) @@
    ("day" :> Num(Day(target_date), 1)) @@
    ("month" :> Num(Month(target_date), 1)) @@
    ("dayofweek" :> Num(DayOfWeek(target_date), 1)) @@
    ("is_weekend" :> Num(IsWeekend(target_date), 1)) @@
    ("week_of_year" :> Num(WeekOfYear(target_date), 1))

\* Mutant of Sanitize: the NaN pass is left out.
SanitizeNothing(feats) == feats

\* lines 120-123: NaN values become 0.0
Sanitize(feats) ==
    [name \in DOMAIN feats |-> IF IsNan(feats[name]) THEN Zero ELSE feats[name]]

\* Mutant of HistoryAfter: the work is done in place on the caller's frame.
HistoryAfterInPlace(history_df, prod_hist) == prod_hist

\* The caller's data frame after the call: every step works on a copy.
HistoryAfter(history_df, prod_hist) == history_df

NoFrame == <<>>

\* build_features(history_df, product, target_date): what it raises or returns
\* (ret holds the returned dict, or nothing), its locals, and the caller's frame.
BuildFeatures(history_df, product, target_date) ==
    LET filtered == FilterProduct(history_df, product)
        daily_idx == EnsureDailyIndex(filtered)
        extended == Extend(daily_idx.df, product, target_date)
        masked == MaskUpTo(extended, target_date)
        recent == TailRows(masked, HISTORY_DAYS + 1)
        qty == Col(recent, "Quantity")
        price == Col(recent, "PricePerUnit")
    IN  IF filtered = <<>>
        THEN [raised |-> NoHistoryError, ret |-> <<>>, repaired |-> NoFrame,
              prod_hist |-> NoFrame, recent |-> NoFrame,
              history_df |-> HistoryAfter(history_df, filtered)]
        ELSE IF daily_idx.raised # ""
        THEN [raised |-> daily_idx.raised, ret |-> <<>>, repaired |-> NoFrame,
              prod_hist |-> NoFrame, recent |-> NoFrame,
              history_df |-> HistoryAfter(history_df, SortByDate(filtered))]
        ELSE IF masked = <<>>
        THEN [raised |-> DateTooEarlyError, ret |-> <<>>,
              repaired |-> daily_idx.df, prod_hist |-> extended,
              recent |-> NoFrame,
              history_df |-> HistoryAfter(history_df, extended)]
        ELSE [raised |-> "",
              ret |-> <<Sanitize(RawFeatures(qty, price, target_date))>>,
              repaired |-> daily_idx.df, prod_hist |-> extended,
              recent |-> recent,
              history_df |-> HistoryAfter(history_df, extended)]

\* ------------------------------------------------------------------ state

VARIABLES
    daily,       \* the shared dataset (app.py:18)
    pc,          \* "idle" | "called" | "loop" | "model" | "responded"
    product,     \* product of the call or request in progress
    target_date, \* target date of the last build_features call
    raised,      \* what that call raised ("" when it returned)
    ret,         \* <<feats>> when it returned, <<>> otherwise
    repaired,    \* prod_hist after ensure_daily_index (line 40)
    prod_hist,   \* prod_hist after the extension (line 54)
    recent,      \* the window (line 63)
    start_date,  \* /predict: start date
    n_days,      \* /predict: n_days
    offset,      \* /predict: loop index
    rows,        \* /predict: feature rows collected
    response     \* /predict: HTTP status answered (0: none yet)

vars == <<daily, pc, product, target_date, raised, ret, repaired, prod_hist,
          recent, start_date, n_days, offset, rows, response>>

Records ==
    [Date : RecordDates, ProductCategory : {"A"},
     Quantity : Quantities, PricePerUnit : Prices]
    \cup
    [Date : RecordDates, ProductCategory : {"B"},
     Quantity : OtherQuantities, PricePerUnit : OtherPrices]

\* Target dates of direct calls: every day up to MaxTarget, and one far enough
\* for the window to be cut to HISTORY_DAYS + 1 rows.
TargetDates == (0..MaxTarget) \cup {HISTORY_DAYS + MaxDate + 1}

Datasets == UNION {[1..n -> Records] : n \in DatasetLens}

NoCall ==
    /\ product = ""
    /\ target_date = 0
    /\ raised = ""
    /\ ret = <<>>
    /\ repaired = NoFrame
    /\ prod_hist = NoFrame
    /\ recent = NoFrame

NoRequest ==
    /\ start_date = 0
    /\ n_days = 0
    /\ offset = 0
    /\ rows = <<>>
    /\ response = 0

Init ==
    /\ daily \in Datasets
    /\ pc = "idle"
    /\ NoCall
    /\ NoRequest

\* One call of build_features on the shared dataset.
Call(p, t) ==
    LET r == BuildFeatures(daily, p, t)
    IN  /\ daily' = r.history_df
        /\ product' = p
        /\ target_date' = t
        /\ raised' = r.raised
        /\ ret' = r.ret
        /\ repaired' = r.repaired
        /\ prod_hist' = r.prod_hist
        /\ recent' = r.recent

\* A direct call of build_features(daily, p, t).
CallBuildFeatures(p, t) ==
    /\ pc = "idle"
    /\ Call(p, t)
    /\ pc' = "called"
    /\ UNCHANGED <<start_date, n_days, offset, rows, response>>

\* The caller drops the result; the next call or request starts afresh.
Return ==
    /\ pc \in {"called", "responded"}
    /\ pc' = "idle"
    /\ product' = ""
    /\ target_date' = 0
    /\ raised' = ""
    /\ ret' = <<>>
    /\ repaired' = NoFrame
    /\ prod_hist' = NoFrame
    /\ recent' = NoFrame
    /\ start_date' = 0
    /\ n_days' = 0
    /\ offset' = 0
    /\ rows' = <<>>
    /\ response' = 0
    /\ UNCHANGED daily

\* ---------------------------------------------------------------- /predict

\* app.py:21-23, read off the dataset
VALID_CATEGORIES == {daily[i].ProductCategory : i \in 1..Len(daily)}
DateInRange(d) ==
    /\ daily # <<>>
    /\ Min(DateSet(daily)) <= d
    /\ d <= Max(DateSet(daily))

\* app.py:40-69: the request {product_category: p, date: d, n_days: n} is
\* validated; p = "" stands for a missing product_category.
PredictStart(p, d, n) ==
    /\ pc = "idle"
    /\ product' = p
    /\ start_date' = d
    /\ n_days' = n
    /\ IF \/ p = ""
          \/ n <= 0 \/ n > 365
          \/ p \notin VALID_CATEGORIES
          \/ ~DateInRange(d) \/ ~DateInRange(d + (n - 1))
       THEN /\ pc' = "responded"
            /\ response' = 400
       ELSE /\ pc' = "loop"
            /\ response' = 0
    /\ UNCHANGED <<daily, target_date, raised, ret, repaired, prod_hist,
                   recent, offset, rows>>

\* app.py:74-79: one iteration of the per-day loop
PredictStep ==
    /\ pc = "loop"
    /\ offset < n_days
    /\ Call(product, ToDatetime(StrfTime(start_date + offset)))
    /\ IF raised' # ""
       THEN /\ pc' = "responded"
            /\ response' = 400
            /\ UNCHANGED <<offset, rows>>
       ELSE /\ pc' = "loop"
            /\ offset' = offset + 1
            /\ rows' = rows \o ret'
            /\ UNCHANGED response
    /\ UNCHANGED <<start_date, n_days>>

\* app.py:83-102: the rows go to the regression model, which answers or fails
PredictRespond(status) ==
    /\ pc = "loop"
    /\ offset = n_days
    /\ pc' = "responded"
    /\ response' = status
    /\ UNCHANGED <<daily, product, target_date, raised, ret, repaired,
                   prod_hist, recent, start_date, n_days, offset, rows>>

Next ==
    \/ \E p \in Products, t \in TargetDates : CallBuildFeatures(p, t)
    \/ \E p \in Products \cup {""}, d \in 0..MaxStart, n \in 0..MaxNDays :
          PredictStart(p, d, n)
    \/ PredictStep
    \/ \E status \in {200, 500} : PredictRespond(status)
    \/ Return

Spec == Init /\ [][Next]_vars

\* ------------------------------------------------------------ properties

\* A build_features call has ended (it returned or raised).
Called == ret # <<>> \/ raised # ""
\* It returned a feature record.
Returned == raised = "" /\ Len(ret) = 1

HasCategory == \E i \in 1..Len(daily) : daily[i].ProductCategory = product
EarliestDate ==
    Min({daily[i].Date : i \in {j \in 1..Len(daily) : daily[j].ProductCategory = product}})

WinLen == Len(recent)
WinQty(i) == recent[i].Quantity
WinPrice(i) == recent[i].PricePerUnit

LagName == (1 :> "Quantity_lag_1") @@ (7 :> "Quantity_lag_7") @@ (28 :> "Quantity_lag_28")
MeanName ==
    (7 :> "Quantity_roll_mean_7") @@ (14 :> "Quantity_roll_mean_14") @@
    (28 :> "Quantity_roll_mean_28")
StdName ==
    (7 :> "Quantity_roll_std_7") @@ (14 :> "Quantity_roll_std_14") @@
    (28 :> "Quantity_roll_std_28")

\* Sum of the window's quantities at positions a..b.
RECURSIVE QtySum(_, _)
QtySum(a, b) == IF a > b THEN 0 ELSE WinQty(b) + QtySum(a, b - 1)

\* Every record of the dataset has a quantity and a unit price >= 0.
NonNegativeHistory ==
    \A i \in 1..Len(daily) : daily[i].Quantity >= 0 /\ daily[i].PricePerUnit >= 0

\* C1 (as claimed): on a history of non-negative quantities and prices, every
\* value of a returned feature record is finite.
C1_AllFinite ==
    (Returned /\ NonNegativeHistory) =>
        \A name \in DOMAIN ret[1] : ret[1][name].k \in {"num", "sqrt"}

\* C2 (as claimed): for a category with at least one record and a target date
\* not before its earliest record, build_features returns a full feature
\* record and raises nothing.
C2_Total ==
    (Called /\ HasCategory /\ target_date >= EarliestDate)
        => (raised = "" /\ Len(ret) = 1 /\ DOMAIN ret[1] = FeatureNames)

\* C3 (as claimed): Quantity_lag_n is the quantity n entries before the
\* window's latest entry, and 0.0 when the window has fewer than n+1 entries.
C3_LagPosition ==
    Returned =>
        \A n \in {1, 7, 28} :
            ret[1][LagName[n]] =
                IF WinLen >= n + 1 THEN Num(WinQty(WinLen - n), 1) ELSE Zero

\* C4 (as claimed): the 7-day price change is (latest - p7) / p7 for the price
\* p7 seven rows back, 0.0 on a window of fewer than 8 rows, and 0.0 when p7 = 0.
C4_PctChange ==
    Returned =>
        ret[1]["price pct change 7d"] =
            IF WinLen < 8 THEN Zero
            ELSE IF WinPrice(WinLen - 7) = 0 THEN Zero
            ELSE Num(WinPrice(WinLen) - WinPrice(WinLen - 7), WinPrice(WinLen - 7))

\* C5 (as claimed): with 0 or 1 entries before the latest one, every rolling
\* mean and every rolling std is 0.0.
C5_ShortWindowAllZero ==
    (Returned /\ WinLen - 1 <= 1) =>
        \A n \in {7, 14, 28} :
            ret[1][MeanName[n]] = Zero /\ ret[1][StdName[n]] = Zero

\* C5 (amended): with no entry before the latest one the rolling means and stds
\* are 0.0; with exactly one, the stds are 0.0 and each mean is that entry's
\* quantity.
C5_ShortWindow ==
    (Returned /\ WinLen - 1 <= 1) =>
        \A n \in {7, 14, 28} :
            /\ ret[1][StdName[n]] = Zero
            /\ ret[1][MeanName[n]] =
                  IF WinLen = 1 THEN Zero ELSE Num(WinQty(1), 1)

\* C5 witness: one entry with a non-zero quantity precedes the latest entry.
C5_Witness == Returned /\ WinLen = 2 /\ WinQty(1) = 2 /\ WinQty(2) = 1

\* C6: Quantity_roll_mean_n is the mean of the min(n, length - 1) quantities
\* just before the window's latest entry (a function of those entries alone:
\* the latest quantity does not enter), and 0.0 when there is none.
C6_RollMean ==
    Returned =>
        \A n \in {7, 14, 28} :
            LET m == IF WinLen - 1 < n THEN WinLen - 1 ELSE n
            IN  ret[1][MeanName[n]] =
                    IF m = 0 THEN Zero
                    ELSE Num(QtySum(WinLen - m, WinLen - 1), m)

\* C6 witness: more than n entries precede the latest one, some of them
\* non-zero, and the latest entry's quantity differs from the mean.
C6_Witness ==
    /\ Returned
    /\ WinLen = 9
    /\ WinQty(1) = 2
    /\ WinQty(2) = 1
    /\ ret[1]["Quantity_roll_mean_7"] = Num(1, 7)

\* C7: a category without records makes build_features raise NoHistoryError
\* before anything is computed; nothing is returned.
C7_NoHistory ==
    (Called /\ ~HasCategory) =>
        /\ raised = NoHistoryError
        /\ ret = <<>>
        /\ repaired = NoFrame /\ prod_hist = NoFrame /\ recent = NoFrame

\* C7 witness: the dataset has records, none of the requested category.
C7_Witness == Called /\ ~HasCategory /\ daily # <<>> /\ pc = "called"

\* C8 (as claimed): DateTooEarlyError is raised if and only if the category
\* has a record and target_date precedes its earliest record.
C8_DateTooEarlyIff ==
    Called =>
        ((raised = DateTooEarlyError)
            <=> (HasCategory /\ target_date < EarliestDate))

C10_Extension ==
    (Called /\ repaired # NoFrame) =>
        LET n == Len(repaired)
            last == repaired[n].Date
            k == target_date - last
        IN  IF k >= 1
            THEN /\ Len(prod_hist) = n + k
                 /\ \A i \in 1..n : prod_hist[i] = repaired[i]
                 /\ \A j \in 1..k :
                       /\ prod_hist[n + j].Date = last + j
                       /\ prod_hist[n + j].Quantity = 0
                       /\ prod_hist[n + j].PricePerUnit = repaired[n].PricePerUnit
                 /\ \A i \in 1..(n + k - 1) :
                       prod_hist[i + 1].Date = prod_hist[i].Date + 1
                 /\ Len(prod_hist) = (target_date - prod_hist[1].Date) + 1
            ELSE prod_hist = repaired

\* C10 witness: a two-day series extended by three days at price 2.
C10_Witness ==
    /\ Called
    /\ Len(repaired) = 2
    /\ target_date = repaired[2].Date + 3
    /\ repaired[2].PricePerUnit = 2
    /\ repaired[1].PricePerUnit = 0

====
